---- MODULE Spec2Model ----
(***************************************************************************)
(* Model of src/advanced-vector/vector.h: RawMemory<T> and Vector<T>.      *)
(*                                                                         *)
(* Two Vector objects (1 and 2) live on one heap.  A buffer is a sequence  *)
(* of slots; a slot is Raw (allocated, no object constructed in it) or     *)
(* holds the value of the constructed T.  Every public operation of Vector *)
(* is one action.  An element operation of T that may throw is a "tick":   *)
(* the input f of an action is the number of the tick that throws (0: no   *)
(* throw), the model of a test type that throws on its f-th operation.     *)
(* A T operation that throws changes neither operand.                      *)
(*                                                                         *)
(* kind is the trait of T that the code tests at compile time:             *)
(*   "NothrowMove": std::is_nothrow_move_constructible_v<T>; relocation    *)
(*                  moves, a move leaves MovedFrom in its source;          *)
(*   "CopyOnly"   : T is copy constructible and not nothrow-movable;       *)
(*                  std::move of a T copies, and the copy may throw.       *)
(* Construction from arguments, copy construction, value construction and  *)
(* every assignment may throw for both kinds.                              *)
(***************************************************************************)
EXTENDS Integers, Sequences, FiniteSets, TLC

VARIABLES vec, kind, heap, last, reserved

vars == <<vec, kind, heap, last, reserved>>

\* heap is the number of element slots the heap has room for in the buffers
\* that the Vectors own; it is fixed for a run.  The runs of the
\* specifications below differ in the operations used and in the heap:
\* MaxHeap for Spec (every operation, two Vectors), MaxHeapOne for SpecOne
\* (one Vector), MaxHeapTwo for SpecTwo (construction, assignment and Swap of
\* two Vectors), MaxHeapPush for SpecPush (PushBack alone), MaxHeapReserve
\* for SpecReserve (Reserve on the empty Vector, then PushBack).
\* reserved is a history variable: the argument of the Reserve call made on
\* the empty Vector and the buffer that call left, NoReserve before it.
MaxHeap == 2
MaxHeapOne == 4
MaxHeapTwo == 4
MaxHeapPush == 8
MaxHeapReserve == 5

Vecs == {1, 2}
Kinds == {"NothrowMove", "CopyOnly"}
\* Values the caller passes to PushBack / Insert.
Vals == {0, 1}
\* A slot with no constructed object.
Raw == -1
\* The value of T() and the value a moved-from T is left with.
DefaultVal == 0
MovedFrom == 0

NullAddr == 0
Addrs == {1, 2, 3}

Other(v) == 3 - v

----------------------------------------------------------------------------
(* RawMemory<T> *)

\* RawMemory() = default
EmptyRaw == [buffer_ |-> NullAddr, capacity_ |-> 0, mem |-> << >>]

\* Allocate(size): nullptr for size 0
Allocate(size, addr) == IF size # 0 THEN addr ELSE NullAddr

\* explicit RawMemory(size_t size)
RawMemoryNew(size, addr) ==
    [buffer_ |-> Allocate(size, addr), capacity_ |-> size,
     mem |-> [j \in 1..size |-> Raw]]

\* the address operator new returns: not the address of a buffer in use
FreshAddr == CHOOSE a \in Addrs : \A v \in Vecs : vec[v].data_.buffer_ # a

\* number of constructed objects in slots [lo, lo + cnt) of mem
Count(mem, lo, cnt) ==
    Cardinality({j \in lo..(lo + cnt - 1) : j < Len(mem) /\ mem[j + 1] # Raw})

\* objects still constructed in a buffer when ~RawMemory releases it
Deallocate(mem) == Count(mem, 0, Len(mem))

\* void Swap(RawMemory& other)
RawSwap(this, other) ==
    [this  |-> [buffer_ |-> other.buffer_, capacity_ |-> other.capacity_,
                mem |-> other.mem],
     other |-> [buffer_ |-> this.buffer_, capacity_ |-> this.capacity_,
                mem |-> this.mem]]

\* RawMemory(RawMemory&& other): Swap on the default-initialised members
RawMoveCtor(other) == RawSwap(EmptyRaw, other)

\* RawMemory& operator=(RawMemory&& other), this != &other
RawMoveAssign(this, other) == RawSwap(this, other)

----------------------------------------------------------------------------
(* element ranges *)

\* value left in the source of a move of T
MoveSrc(val) == IF kind = "NothrowMove" THEN MovedFrom ELSE val

\* std::destroy_n(mem + d0, cnt): a destructor call on a Raw slot is
\* undefined behaviour and is counted in ub
DestroyRange(mem, d0, cnt) ==
    [mem |-> [j \in 1..Len(mem) |->
                 IF j - 1 >= d0 /\ j - 1 < d0 + cnt THEN Raw ELSE mem[j]],
     destroyed |-> Count(mem, d0, cnt),
     ub |-> cnt - Count(mem, d0, cnt)]

\* std::uninitialized_copy / std::uninitialized_move of src[s0, s0 + cnt) to
\* dst[d0, ...), ticks numbered from t0 + 1.  moving: the move constructor
\* is used and cannot throw.  When the copy of an element throws, the
\* algorithm destroys the elements it has constructed.
UninitCopy(src, s0, dst, d0, cnt, t0, f, moving) ==
    LET throws == ~moving /\ f > t0 /\ f <= t0 + cnt
        done   == IF throws THEN f - t0 - 1 ELSE cnt
    IN  [dst |-> [j \in 1..Len(dst) |->
                    IF j - 1 >= d0 /\ j - 1 < d0 + done
                    THEN (IF throws THEN Raw ELSE src[s0 + (j - 1 - d0) + 1])
                    ELSE dst[j]],
         src |-> [j \in 1..Len(src) |->
                    IF moving /\ j - 1 >= s0 /\ j - 1 < s0 + cnt
                    THEN MovedFrom ELSE src[j]],
         t |-> IF moving THEN t0 ELSE t0 + (IF throws THEN done + 1 ELSE cnt),
         threw |-> throws,
         ops |-> done,
         destroyed |-> IF throws THEN done ELSE 0,
         leaked |-> Count(dst, d0, done)]

\* UninitializedMoveOrCopy relocating one element too few
UninitializedMoveOrCopyShort(src, s0, dst, d0, cnt, t0, f) ==
    UninitCopy(src, s0, dst, d0, IF cnt > 0 THEN cnt - 1 ELSE 0, t0, f,
               kind = "NothrowMove")

\* Vector::UninitializedMoveOrCopy
UninitializedMoveOrCopy(src, s0, dst, d0, cnt, t0, f) ==
    UninitCopy(src, s0, dst, d0, cnt, t0, f, kind = "NothrowMove")

\* uninitialized_value_construct_n that constructs one element too few
ValueConstructNShort(dst, d0, cnt, t0, f) ==
    LET cnt1   == IF cnt > 0 THEN cnt - 1 ELSE 0
        throws == f > t0 /\ f <= t0 + cnt1
        done   == IF throws THEN f - t0 - 1 ELSE cnt1
    IN  [dst |-> [j \in 1..Len(dst) |->
                    IF j - 1 >= d0 /\ j - 1 < d0 + done
                    THEN (IF throws THEN Raw ELSE DefaultVal)
                    ELSE dst[j]],
         t |-> t0 + (IF throws THEN done + 1 ELSE cnt1),
         threw |-> throws,
         ops |-> done,
         destroyed |-> IF throws THEN done ELSE 0,
         leaked |-> Count(dst, d0, done)]

\* std::uninitialized_value_construct_n(mem + d0, cnt)
ValueConstructN(dst, d0, cnt, t0, f) ==
    LET throws == f > t0 /\ f <= t0 + cnt
        done   == IF throws THEN f - t0 - 1 ELSE cnt
    IN  [dst |-> [j \in 1..Len(dst) |->
                    IF j - 1 >= d0 /\ j - 1 < d0 + done
                    THEN (IF throws THEN Raw ELSE DefaultVal)
                    ELSE dst[j]],
         t |-> t0 + (IF throws THEN done + 1 ELSE cnt),
         threw |-> throws,
         ops |-> done,
         destroyed |-> IF throws THEN done ELSE 0,
         leaked |-> Count(dst, d0, done)]

\* one move assignment mem[d] = std::move(mem[s])
MoveAssign1(mem, s, d) ==
    [j \in 1..Len(mem) |->
        IF j - 1 = d THEN mem[s + 1]
        ELSE IF j - 1 = s THEN MoveSrc(mem[s + 1]) ELSE mem[j]]

\* the first k assignments of std::move_backward(mem + first, mem + lst, mem + dlast)
RECURSIVE MoveBackwardK(_, _, _, _)
MoveBackwardK(mem, lst, dlast, k) ==
    IF k = 0 THEN mem
    ELSE MoveAssign1(MoveBackwardK(mem, lst, dlast, k - 1), lst - k, dlast - k)

\* move_backward that leaves out the element at first
MoveBackwardShort(mem, first, lst, dlast, t0, f) ==
    LET cnt    == IF lst > first THEN lst - first - 1 ELSE 0
        throws == f > t0 /\ f <= t0 + cnt
        done   == IF throws THEN f - t0 - 1 ELSE cnt
    IN  [mem |-> MoveBackwardK(mem, lst, dlast, done),
         t |-> t0 + (IF throws THEN done + 1 ELSE cnt),
         threw |-> throws,
         ops |-> done]

\* std::move_backward(mem + first, mem + lst, mem + dlast), ticks from t0 + 1
MoveBackward(mem, first, lst, dlast, t0, f) ==
    LET cnt    == lst - first
        throws == f > t0 /\ f <= t0 + cnt
        done   == IF throws THEN f - t0 - 1 ELSE cnt
    IN  [mem |-> MoveBackwardK(mem, lst, dlast, done),
         t |-> t0 + (IF throws THEN done + 1 ELSE cnt),
         threw |-> throws,
         ops |-> done]

\* the first k assignments of std::move(mem + first, mem + lst, mem + dfirst)
RECURSIVE MoveForwardK(_, _, _, _)
MoveForwardK(mem, first, dfirst, k) ==
    IF k = 0 THEN mem
    ELSE MoveAssign1(MoveForwardK(mem, first, dfirst, k - 1),
                     first + k - 1, dfirst + k - 1)

\* std::move that leaves out the last element of the range
MoveForwardShort(mem, first, lst, dfirst, t0, f) ==
    LET cnt    == IF lst > first THEN lst - first - 1 ELSE 0
        throws == f > t0 /\ f <= t0 + cnt
        done   == IF throws THEN f - t0 - 1 ELSE cnt
    IN  [mem |-> MoveForwardK(mem, first, dfirst, done),
         t |-> t0 + (IF throws THEN done + 1 ELSE cnt),
         threw |-> throws,
         ops |-> done]

\* std::move(mem + first, mem + lst, mem + dfirst), ticks from t0 + 1
MoveForward(mem, first, lst, dfirst, t0, f) ==
    LET cnt    == lst - first
        throws == f > t0 /\ f <= t0 + cnt
        done   == IF throws THEN f - t0 - 1 ELSE cnt
    IN  [mem |-> MoveForwardK(mem, first, dfirst, done),
         t |-> t0 + (IF throws THEN done + 1 ELSE cnt),
         threw |-> throws,
         ops |-> done]

----------------------------------------------------------------------------
(* Vector<T>: operations as functions of the object V, the arguments, the   *)
(* failing tick f and the address addr a new buffer would get.  The result  *)
(* holds the members after the call and what the call did: t the ticks      *)
(* used, threw, at (the statement that threw, or the branch taken when      *)
(* nothing threw), ret the iterator returned, ops the element               *)
(* constructions and assignments done,                                      *)
(* destroyed the destructor calls on constructed slots, leaked the          *)
(* objects lost without a destructor call, ub the destructor calls on Raw   *)
(* slots.                                                                   *)

Capacity(V) == V.data_.capacity_
Size(V) == V.size_

\* the sequence of the elements [begin(), end())
Elems(V) == SubSeq(V.data_.mem, 1, V.size_)

NoVector == [alive |-> FALSE, data_ |-> EmptyRaw, size_ |-> 0]

\* an iterator: a position idx in the buffer at address buf
Iter(buf, idx) == [buf |-> buf, idx |-> idx]
NoIter == Iter(NullAddr, 0)

\* begin() + idx
IterAt(V, idx) == Iter(V.data_.buffer_, idx)

WithMem(data, m) == [data EXCEPT !.mem = m]

Res(data, size, t, threw, at, ret, ops, destroyed, leaked, ub) ==
    [data_ |-> data, size_ |-> size, t |-> t, threw |-> threw, at |-> at,
     ret |-> ret, ops |-> ops, destroyed |-> destroyed, leaked |-> leaked,
     ub |-> ub]

\* growth by one slot instead of doubling
NewCapacityPlusOne(n) == n + 1

\* the capacity of new_data in Emplace (line 200)
NewCapacity(n) == IF n = 0 THEN 1 ELSE n * 2

\* Emplace, branch size_ == Capacity() (lines 199-217)
EmplaceRealloc(V, shift, x, f, addr) ==
    LET n     == V.size_
        new0  == RawMemoryNew(NewCapacity(n), addr)
        \* line 201: the new element, tick 1
        mem1  == [new0.mem EXCEPT ![shift + 1] = x]
        \* line 204 and its handler (line 206)
        pre   == UninitializedMoveOrCopy(V.data_.mem, 0, mem1, 0, shift, 1, f)
        preH  == DestroyRange(pre.dst, shift, 1)
        \* line 210 and its handler (line 212)
        suf   == UninitializedMoveOrCopy(pre.src, shift, pre.dst, shift + 1,
                                         n - shift, pre.t, f)
        sufH  == DestroyRange(suf.dst, shift, n - shift + 1)
        \* line 216
        old   == DestroyRange(suf.src, 0, n)
    IN  IF f = 1
        THEN Res(V.data_, n, 1, TRUE, "new", NoIter, 0, 0, Deallocate(new0.mem), 0)
        ELSE IF pre.threw
        THEN Res(WithMem(V.data_, pre.src), n, pre.t, TRUE, "prefix", NoIter,
                 1 + pre.ops, pre.destroyed + preH.destroyed,
                 Deallocate(preH.mem), preH.ub)
        ELSE IF suf.threw
        THEN Res(WithMem(V.data_, suf.src), n, suf.t, TRUE, "suffix", NoIter,
                 1 + pre.ops + suf.ops, suf.destroyed + sufH.destroyed,
                 Deallocate(sufH.mem), sufH.ub)
        \* line 217: data_.Swap(new_data); ~new_data releases the old buffer
        ELSE Res([buffer_ |-> new0.buffer_, capacity_ |-> new0.capacity_,
                  mem |-> suf.dst],
                 n + 1, suf.t, FALSE, "realloc", Iter(new0.buffer_, shift),
                 1 + n, old.destroyed,
                 Deallocate(old.mem), old.ub)

\* Emplace, branch size_ < Capacity() and pos != end() (lines 219-229)
EmplaceShift(V, shift, x, f) ==
    LET n     == V.size_
        mem0  == V.data_.mem
        \* line 220: T temp(args), tick 1
        \* line 221: new(end()) T(std::move(*(end() - 1))), a tick when it copies
        tDup  == IF kind = "NothrowMove" THEN 1 ELSE 2
        mem2  == [mem0 EXCEPT ![n + 1] = mem0[n], ![n] = MoveSrc(mem0[n])]
        lk    == Count(mem0, n, 1)
        \* line 223 and its handler (line 225)
        mb    == MoveBackward(mem2, shift, n - 1, n, tDup, f)
        mbH   == DestroyRange(mb.mem, n, 1)
        \* line 228: data_[shift] = std::move(temp), tick mb.t + 1
        mem4  == [mb.mem EXCEPT ![shift + 1] = x]
    IN  IF f = 1
        THEN Res(V.data_, n, 1, TRUE, "temp", NoIter, 0, 0, 0, 0)
        ELSE IF f = 2 /\ tDup = 2
        THEN Res(V.data_, n, 2, TRUE, "dup", NoIter, 1, 0, 0, 0)
        ELSE IF mb.threw
        THEN Res(WithMem(V.data_, mbH.mem), n, mb.t, TRUE, "shift", NoIter,
                 2 + mb.ops, mbH.destroyed, lk, mbH.ub)
        ELSE IF f = mb.t + 1
        THEN Res(WithMem(V.data_, mb.mem), n, mb.t + 1, TRUE, "assign", NoIter,
                 2 + mb.ops, 0, lk, 0)
        ELSE Res(WithMem(V.data_, mem4), n + 1, mb.t + 1, FALSE, "inplace",
                 IterAt(V, shift), 3 + mb.ops, 0, lk, 0)

\* Emplace, branch size_ < Capacity() and pos == end() (line 231)
EmplaceAtEnd(V, shift, x, f) ==
    LET n == V.size_
    IN  IF f = 1
        THEN Res(V.data_, n, 1, TRUE, "new", NoIter, 0, 0, 0, 0)
        ELSE Res(WithMem(V.data_, [V.data_.mem EXCEPT ![shift + 1] = x]),
                 n + 1, 1, FALSE, "end", IterAt(V, shift), 1, 0,
                 Count(V.data_.mem, shift, 1), 0)

\* Emplace that reallocates one element before the buffer is full
EmplaceEarly(V, shift, x, f, addr) ==
    IF V.size_ + 1 >= Capacity(V) THEN EmplaceRealloc(V, shift, x, f, addr)
    ELSE IF shift # V.size_ THEN EmplaceShift(V, shift, x, f)
    ELSE EmplaceAtEnd(V, shift, x, f)

\* iterator Emplace(const_iterator pos, Args&&... args), shift = pos - begin()
Emplace(V, shift, x, f, addr) ==
    IF V.size_ = Capacity(V) THEN EmplaceRealloc(V, shift, x, f, addr)
    ELSE IF shift # V.size_ THEN EmplaceShift(V, shift, x, f)
    ELSE EmplaceAtEnd(V, shift, x, f)

\* T& EmplaceBack(Args&&... args): Emplace(cend(), args)
EmplaceBack(V, x, f, addr) == Emplace(V, V.size_, x, f, addr)

\* Reserve that grows to twice the capacity when that is more than asked
ReserveAtLeastDouble(V, new_capacity, f, addr) ==
    LET n    == V.size_
        cap  == IF new_capacity < 2 * Capacity(V) THEN 2 * Capacity(V)
                ELSE new_capacity
        new0 == RawMemoryNew(cap, addr)
        rel  == UninitializedMoveOrCopy(V.data_.mem, 0, new0.mem, 0, n, 0, f)
        old  == DestroyRange(rel.src, 0, n)
    IN  IF new_capacity <= Capacity(V)
        THEN Res(V.data_, n, 0, FALSE, "noop", NoIter, 0, 0, 0, 0)
        ELSE IF rel.threw
        THEN Res(WithMem(V.data_, rel.src), n, rel.t, TRUE, "relocate", NoIter,
                 rel.ops, rel.destroyed, Deallocate(rel.dst), 0)
        ELSE Res([buffer_ |-> new0.buffer_, capacity_ |-> new0.capacity_,
                  mem |-> rel.dst],
                 n, rel.t, FALSE, "realloc", NoIter, rel.ops, old.destroyed,
                 Deallocate(old.mem), old.ub)

\* void Reserve(size_t new_capacity)
Reserve(V, new_capacity, f, addr) ==
    LET n    == V.size_
        new0 == RawMemoryNew(new_capacity, addr)
        \* line 284
        rel  == UninitializedMoveOrCopy(V.data_.mem, 0, new0.mem, 0, n, 0, f)
        \* line 287, on the old buffer that new_data holds after the Swap
        old  == DestroyRange(rel.src, 0, n)
    IN  IF new_capacity <= Capacity(V)
        THEN Res(V.data_, n, 0, FALSE, "noop", NoIter, 0, 0, 0, 0)
        ELSE IF rel.threw
        THEN Res(WithMem(V.data_, rel.src), n, rel.t, TRUE, "relocate", NoIter,
                 rel.ops, rel.destroyed, Deallocate(rel.dst), 0)
        ELSE Res([buffer_ |-> new0.buffer_, capacity_ |-> new0.capacity_,
                  mem |-> rel.dst],
                 n, rel.t, FALSE, "realloc", NoIter, rel.ops, old.destroyed,
                 Deallocate(old.mem), old.ub)

\* Resize that sets size_ before it constructs the new elements
ResizeSizeFirst(V, new_size, f, addr) ==
    LET n  == V.size_
        r  == Reserve(V, new_size, f, addr)
        vc == ValueConstructN(r.data_.mem, n, new_size - n, r.t, f)
        d  == DestroyRange(V.data_.mem, new_size, n - new_size)
    IN  IF n < new_size
        THEN IF r.threw THEN r
             ELSE IF vc.threw
             THEN Res(WithMem(r.data_, vc.dst), new_size, vc.t, TRUE, "value",
                      NoIter, r.ops + vc.ops, r.destroyed + vc.destroyed,
                      r.leaked + vc.leaked, r.ub)
             ELSE Res(WithMem(r.data_, vc.dst), new_size, vc.t, FALSE,
                      IF r.at = "realloc" THEN "realloc" ELSE "grow", NoIter,
                      r.ops + vc.ops, r.destroyed, r.leaked + vc.leaked, r.ub)
        ELSE Res(WithMem(V.data_, d.mem), new_size, 0, FALSE, "shrink", NoIter,
                 0, d.destroyed, 0, d.ub)

\* void Resize(size_t new_size)
Resize(V, new_size, f, addr) ==
    LET n  == V.size_
        r  == Reserve(V, new_size, f, addr)
        \* line 271
        vc == ValueConstructN(r.data_.mem, n, new_size - n, r.t, f)
        \* line 273
        d  == DestroyRange(V.data_.mem, new_size, n - new_size)
    IN  IF n < new_size
        THEN IF r.threw THEN r
             ELSE IF vc.threw
             THEN Res(WithMem(r.data_, vc.dst), n, vc.t, TRUE, "value", NoIter,
                      r.ops + vc.ops, r.destroyed + vc.destroyed,
                      r.leaked + vc.leaked, r.ub)
             ELSE Res(WithMem(r.data_, vc.dst), new_size, vc.t, FALSE,
                      IF r.at = "realloc" THEN "realloc" ELSE "grow", NoIter,
                      r.ops + vc.ops, r.destroyed, r.leaked + vc.leaked, r.ub)
        ELSE Res(WithMem(V.data_, d.mem), new_size, 0, FALSE, "shrink", NoIter,
                 0, d.destroyed, 0, d.ub)

\* void PopBack(), size_ != 0
PopBack(V) ==
    LET d == DestroyRange(V.data_.mem, V.size_ - 1, 1)
    IN  Res(WithMem(V.data_, d.mem), V.size_ - 1, 0, FALSE, "", NoIter, 0,
            d.destroyed, 0, d.ub)

\* Erase with a handler that destroys the last element when the shift throws
EraseDestroysOnThrow(V, shift, f) ==
    LET n  == V.size_
        mf == MoveForward(V.data_.mem, shift + 1, n, shift, 0, f)
        d  == DestroyRange(mf.mem, n - 1, 1)
    IN  IF mf.threw
        THEN Res(WithMem(V.data_, d.mem), n, mf.t, TRUE, "shift", NoIter,
                 mf.ops, d.destroyed, 0, d.ub)
        ELSE Res(WithMem(V.data_, d.mem), n - 1, mf.t, FALSE, "", IterAt(V, shift),
                 mf.ops, d.destroyed, 0, d.ub)

\* iterator Erase(const_iterator pos), shift = pos - begin()
Erase(V, shift, f) ==
    LET n  == V.size_
        \* line 256
        mf == MoveForward(V.data_.mem, shift + 1, n, shift, 0, f)
        \* line 257
        d  == DestroyRange(mf.mem, n - 1, 1)
    IN  IF mf.threw
        THEN Res(WithMem(V.data_, mf.mem), n, mf.t, TRUE, "shift", NoIter,
                 mf.ops, 0, 0, 0)
        ELSE Res(WithMem(V.data_, d.mem), n - 1, mf.t, FALSE, "", IterAt(V, shift),
                 mf.ops, d.destroyed, 0, d.ub)

\* void Clear()
Clear(V) ==
    LET d == DestroyRange(V.data_.mem, 0, V.size_)
    IN  Res(WithMem(V.data_, d.mem), 0, 0, FALSE, "", NoIter, 0, d.destroyed, 0,
            d.ub)

\* explicit Vector(size_t size).  When a constructor throws, the members
\* are released and no object exists: size_ of the result is unused.
VectorN(size, f, addr) ==
    LET new0 == RawMemoryNew(size, addr)
        vc   == ValueConstructN(new0.mem, 0, size, 0, f)
    IN  IF vc.threw
        THEN Res(EmptyRaw, 0, vc.t, TRUE, "value", NoIter, vc.ops, vc.destroyed,
                 Deallocate(vc.dst), 0)
        ELSE Res(WithMem(new0, vc.dst), size, vc.t, FALSE, "", NoIter, vc.ops, 0,
                 0, 0)

\* Vector(const Vector& other)
VectorCopy(other, f, addr) ==
    LET new0 == RawMemoryNew(Size(other), addr)
        uc   == UninitCopy(other.data_.mem, 0, new0.mem, 0, Size(other), 0, f,
                           FALSE)
    IN  IF uc.threw
        THEN Res(EmptyRaw, 0, uc.t, TRUE, "copy", NoIter, uc.ops, uc.destroyed,
                 Deallocate(uc.dst), 0)
        ELSE Res(WithMem(new0, uc.dst), other.size_, uc.t, FALSE, "", NoIter,
                 uc.ops, 0, 0, 0)

\* ~Vector(): destroy_n(begin(), size_), then ~RawMemory
Destroy(V) ==
    LET d == DestroyRange(V.data_.mem, 0, V.size_)
    IN  Res(EmptyRaw, 0, 0, FALSE, "", NoIter, 0, d.destroyed, Deallocate(d.mem),
            d.ub)

----------------------------------------------------------------------------
(* operations on two Vectors: the result holds the members of both *)

Res2(data, size, odata, osize, t, threw, at, ops, destroyed, leaked, ub) ==
    [data_ |-> data, size_ |-> size, odata_ |-> odata, osize_ |-> osize,
     t |-> t, threw |-> threw, at |-> at, ret |-> NoIter, ops |-> ops,
     destroyed |-> destroyed, leaked |-> leaked, ub |-> ub]

\* void Swap(Vector& other)
Swap(V, other) ==
    LET rs == RawSwap(V.data_, other.data_)
    IN  Res2(rs.this, other.size_, rs.other, V.size_, 0, FALSE, "", 0, 0, 0, 0)

\* Vector(Vector&& other): Swap on the default-initialised members
VectorMove(other) == Swap([data_ |-> RawMoveCtor(EmptyRaw).this, size_ |-> 0], other)

\* move assignment that leaves other.size_ as it was
MoveAssignKeepsSize(V, other) ==
    LET rm == RawMoveAssign(V.data_, other.data_)
    IN  Res2(rm.this, other.size_, rm.other, other.size_, 0, FALSE, "", 0, 0,
             0, 0)

\* Vector& operator=(Vector&& other), this != &other
MoveAssign(V, other) ==
    LET rm == RawMoveAssign(V.data_, other.data_)
    IN  Res2(rm.this, other.size_, rm.other, 0, 0, FALSE, "", 0, 0, 0, 0)

\* copy_n that assigns one element too few
CopyNShort(src, dst, cnt, t0, f) ==
    LET throws == f > t0 /\ f <= t0 + cnt
        done   == IF throws THEN f - t0 - 1 ELSE cnt
    IN  [dst |-> [j \in 1..Len(dst) |-> IF j < done THEN src[j] ELSE dst[j]],
         t |-> t0 + (IF throws THEN done + 1 ELSE cnt),
         threw |-> throws,
         ops |-> done]

\* std::copy_n(src, cnt, dst): copy assignments, ticks from t0 + 1
CopyN(src, dst, cnt, t0, f) ==
    LET throws == f > t0 /\ f <= t0 + cnt
        done   == IF throws THEN f - t0 - 1 ELSE cnt
    IN  [dst |-> [j \in 1..Len(dst) |-> IF j <= done THEN src[j] ELSE dst[j]],
         t |-> t0 + (IF throws THEN done + 1 ELSE cnt),
         threw |-> throws,
         ops |-> done]

Min(a, b) == IF a < b THEN a ELSE b

\* void CopyNoChangeCapacity(const Vector& other)
CopyNoChangeCapacity(V, other, f) ==
    LET n  == V.size_
        on == other.size_
        \* line 347
        ca == CopyN(other.data_.mem, V.data_.mem, Min(n, on), 0, f)
        \* line 350
        uc == UninitCopy(other.data_.mem, n, ca.dst, n, on - n, ca.t, f, FALSE)
        \* line 352
        d  == DestroyRange(ca.dst, on, n - on)
    IN  IF ca.threw
        THEN Res2(WithMem(V.data_, ca.dst), n, other.data_, on, ca.t, TRUE,
                  "assign", ca.ops, 0, 0, 0)
        ELSE IF n < on
        THEN IF uc.threw
             THEN Res2(WithMem(V.data_, uc.dst), n, other.data_, on, uc.t,
                       TRUE, "copy", ca.ops + uc.ops, uc.destroyed, uc.leaked,
                       0)
             ELSE Res2(WithMem(V.data_, uc.dst), on, other.data_, on, uc.t,
                       FALSE, "inplace", ca.ops + uc.ops, 0, uc.leaked, 0)
        ELSE Res2(WithMem(V.data_, d.mem), on, other.data_, on, ca.t, FALSE,
                  "inplace", ca.ops, d.destroyed, 0, d.ub)

\* copy assignment that gives up the elements and the buffer of *this
\* before it copies other
CopyAssignReleasesFirst(V, other, f, addr) ==
    LET d == Destroy(V)
        c == VectorCopy(other, f, addr)
    IN  IF Capacity(V) < other.size_
        THEN IF c.threw
             THEN Res2(EmptyRaw, 0, other.data_, other.size_, c.t, TRUE,
                       "copy", c.ops, c.destroyed + d.destroyed, c.leaked, 0)
             ELSE Res2(c.data_, c.size_, other.data_, other.size_, c.t,
                       FALSE, "realloc", c.ops, d.destroyed, d.leaked, d.ub)
        ELSE CopyNoChangeCapacity(V, other, f)

\* Vector& operator=(const Vector& other), this != &other
CopyAssign(V, other, f, addr) ==
    LET \* line 116
        c  == VectorCopy(other, f, addr)
        \* line 117, then ~copy_other on the members *this had
        sw == Swap(V, [data_ |-> c.data_, size_ |-> c.size_])
        d  == Destroy([data_ |-> sw.odata_, size_ |-> sw.osize_])
    IN  IF Capacity(V) < other.size_
        THEN IF c.threw
             THEN Res2(V.data_, V.size_, other.data_, other.size_, c.t, TRUE,
                       "copy", c.ops, c.destroyed, c.leaked, 0)
             ELSE Res2(sw.data_, sw.size_, other.data_, other.size_, c.t,
                       FALSE, "realloc", c.ops, d.destroyed, d.leaked, d.ub)
        ELSE CopyNoChangeCapacity(V, other, f)

----------------------------------------------------------------------------
(* the state machine *)

Outcome(R) == IF R.threw THEN "throw" ELSE "ok"

\* A destructor call on a Raw slot is undefined behaviour: the call may
\* return, or the program may be terminated.
Outcomes(R) == IF R.ub > 0 THEN {Outcome(R), "crash"} ELSE {Outcome(R)}

\* last: the last call, the Vector it was made on, how it ended and where
Log(op, v, R, out) == [op |-> op, v |-> v, outcome |-> out, at |-> R.at]

NoRes == Res(EmptyRaw, 0, 0, FALSE, "", NoIter, 0, 0, 0, 0)

Running == last.outcome # "crash"

Alive(v) == vec[v].alive

\* the heap has room for the buffers the call leaves allocated
Fits(v, R0) == R0.data_.capacity_ + Capacity(vec[Other(v)]) <= heap

\* a call on Vector v with result R (R0: the result when nothing throws)
Call(op, v, R0, R) ==
    /\ Fits(v, R0)
    /\ \E out \in Outcomes(R) :
          /\ vec' = [vec EXCEPT ![v] = [alive |-> TRUE, data_ |-> R.data_,
                                        size_ |-> R.size_]]
          /\ last' = Log(op, v, R, out)
    /\ UNCHANGED <<kind, heap, reserved>>

\* a constructor call for Vector v: no object exists when it throws
Construct(op, v, R0, R) ==
    /\ Fits(v, R0)
    /\ vec' = [vec EXCEPT ![v] = [alive |-> ~R.threw, data_ |-> R.data_,
                                  size_ |-> R.size_]]
    /\ last' = Log(op, v, R, Outcome(R))
    /\ UNCHANGED <<kind, heap, reserved>>

\* a call on Vector v with argument Vector o # v
Call2(op, v, o, R0, R) ==
    /\ R0.data_.capacity_ + R0.odata_.capacity_ <= heap
    /\ \E out \in Outcomes(R) :
          /\ vec' = [vec EXCEPT ![v] = [alive |-> TRUE, data_ |-> R.data_,
                                        size_ |-> R.size_],
                                ![o] = [alive |-> TRUE, data_ |-> R.odata_,
                                        size_ |-> R.osize_]]
          /\ last' = Log(op, v, R, out)
    /\ UNCHANGED <<kind, heap, reserved>>

NoReserve == [k |-> -1, buffer_ |-> NullAddr]

InitHeap(h) ==
    /\ kind \in Kinds
    /\ heap = h
    /\ reserved = NoReserve
    /\ vec = [v \in Vecs |-> IF v = 1 THEN [alive |-> TRUE, data_ |-> EmptyRaw,
                                            size_ |-> 0]
                             ELSE NoVector]
    /\ last = Log("Vector", 1, NoRes, "ok")

Init == InitHeap(MaxHeap)

DoVector(v) ==
    /\ Running /\ ~Alive(v)
    /\ Construct("Vector", v, NoRes, NoRes)

DoVectorN(v, size) ==
    /\ Running /\ ~Alive(v)
    /\ LET R0 == VectorN(size, 0, FreshAddr)
       IN  \E f \in 0..R0.t :
              Construct("VectorN", v, R0, VectorN(size, f, FreshAddr))

DoVectorCopy(v) ==
    /\ Running /\ ~Alive(v) /\ Alive(Other(v))
    /\ LET R0 == VectorCopy(vec[Other(v)], 0, FreshAddr)
       IN  \E f \in 0..R0.t :
              Construct("VectorCopy", v, R0,
                        VectorCopy(vec[Other(v)], f, FreshAddr))

DoVectorMove(v) ==
    /\ Running /\ ~Alive(v) /\ Alive(Other(v))
    /\ LET R == VectorMove(vec[Other(v)])
       IN  Call2("VectorMove", v, Other(v), R, R)

DoDestroy(v) ==
    /\ Running /\ Alive(v)
    /\ LET R == Destroy(vec[v])
       IN  \E out \in Outcomes(R) :
              /\ vec' = [vec EXCEPT ![v] = NoVector]
              /\ last' = Log("Destroy", v, R, out)
    /\ UNCHANGED <<kind, heap, reserved>>

DoPushBack(v, x) ==
    /\ Running /\ Alive(v)
    /\ LET R0 == EmplaceBack(vec[v], x, 0, FreshAddr)
       IN  \E f \in 0..R0.t :
              Call("PushBack", v, R0, EmplaceBack(vec[v], x, f, FreshAddr))

DoInsert(v, shift, x) ==
    /\ Running /\ Alive(v)
    /\ shift <= Size(vec[v])
    /\ LET R0 == Emplace(vec[v], shift, x, 0, FreshAddr)
       IN  \E f \in 0..R0.t :
              Call("Insert", v, R0, Emplace(vec[v], shift, x, f, FreshAddr))

DoPopBack(v) ==
    /\ Running /\ Alive(v)
    /\ Size(vec[v]) # 0
    /\ LET R == PopBack(vec[v]) IN Call("PopBack", v, R, R)

DoErase(v, shift) ==
    /\ Running /\ Alive(v)
    /\ shift < Size(vec[v])
    /\ LET R0 == Erase(vec[v], shift, 0)
       IN  \E f \in 0..R0.t :
              Call("Erase", v, R0, Erase(vec[v], shift, f))

DoClear(v) ==
    /\ Running /\ Alive(v)
    /\ LET R == Clear(vec[v]) IN Call("Clear", v, R, R)

DoResize(v, new_size) ==
    /\ Running /\ Alive(v)
    /\ LET R0 == Resize(vec[v], new_size, 0, FreshAddr)
       IN  \E f \in 0..R0.t :
              Call("Resize", v, R0, Resize(vec[v], new_size, f, FreshAddr))

DoReserve(v, new_capacity) ==
    /\ Running /\ Alive(v)
    /\ LET R0 == Reserve(vec[v], new_capacity, 0, FreshAddr)
       IN  \E f \in 0..R0.t :
              Call("Reserve", v, R0,
                   Reserve(vec[v], new_capacity, f, FreshAddr))

DoSwap(v) ==
    /\ Running /\ Alive(v) /\ Alive(Other(v))
    /\ LET R == Swap(vec[v], vec[Other(v)])
       IN  Call2("Swap", v, Other(v), R, R)

DoCopyAssign(v) ==
    /\ Running /\ Alive(v) /\ Alive(Other(v))
    /\ LET R0 == CopyAssign(vec[v], vec[Other(v)], 0, FreshAddr)
       IN  \E f \in 0..R0.t :
              Call2("CopyAssign", v, Other(v), R0,
                    CopyAssign(vec[v], vec[Other(v)], f, FreshAddr))

DoMoveAssign(v) ==
    /\ Running /\ Alive(v) /\ Alive(Other(v))
    /\ LET R == MoveAssign(vec[v], vec[Other(v)])
       IN  Call2("MoveAssign", v, Other(v), R, R)

\* Reserve(k) as the first call that changes an empty Vector
DoReserveEmpty(v, k) ==
    /\ Running /\ Alive(v)
    /\ reserved = NoReserve
    /\ Size(vec[v]) = 0 /\ Capacity(vec[v]) = 0
    /\ LET R == Reserve(vec[v], k, 0, FreshAddr)
       IN  /\ Fits(v, R)
           /\ vec' = [vec EXCEPT ![v] = [alive |-> TRUE, data_ |-> R.data_,
                                         size_ |-> R.size_]]
           /\ last' = Log("Reserve", v, R, Outcome(R))
           /\ reserved' = [k |-> k, buffer_ |-> R.data_.buffer_]
    /\ UNCHANGED <<kind, heap>>

\* v = v and v = std::move(v): this == &other, nothing is done
SelfAssign(V) ==
    Res(V.data_, V.size_, 0, FALSE, "self", NoIter, 0, 0, 0, 0)

DoSelfAssign(v, op) ==
    /\ Running /\ Alive(v)
    /\ Call(op, v, SelfAssign(vec[v]), SelfAssign(vec[v]))

\* the arguments of the calls: sizes, capacities and positions
Sizes == 0..heap

Next ==
    \E v \in Vecs :
        \/ DoVector(v)
        \/ \E size \in Sizes : DoVectorN(v, size)
        \/ DoVectorCopy(v)
        \/ DoVectorMove(v)
        \/ DoDestroy(v)
        \/ \E x \in Vals : DoPushBack(v, x)
        \/ \E shift \in Sizes, x \in Vals : DoInsert(v, shift, x)
        \/ DoPopBack(v)
        \/ \E shift \in Sizes : DoErase(v, shift)
        \/ DoClear(v)
        \/ \E new_size \in Sizes : DoResize(v, new_size)
        \/ \E new_capacity \in Sizes : DoReserve(v, new_capacity)
        \/ DoSwap(v)
        \/ DoCopyAssign(v)
        \/ DoMoveAssign(v)
        \/ \E op \in {"CopyAssign", "MoveAssign"} : DoSelfAssign(v, op)

Spec == Init /\ [][Next]_vars

\* one Vector, the operations on its elements, size and capacity
InitOne == InitHeap(MaxHeapOne)

NextOne ==
    \/ \E x \in Vals : DoPushBack(1, x)
    \/ \E shift \in Sizes, x \in Vals : DoInsert(1, shift, x)
    \/ DoPopBack(1)
    \/ \E shift \in Sizes : DoErase(1, shift)
    \/ DoClear(1)
    \/ \E new_size \in Sizes : DoResize(1, new_size)
    \/ \E new_capacity \in Sizes : DoReserve(1, new_capacity)

SpecOne == InitOne /\ [][NextOne]_vars

\* two Vectors: construction, destruction, assignment and Swap, filled by
\* PushBack and emptied by PopBack
InitTwo == InitHeap(MaxHeapTwo)

NextTwo ==
    \E v \in Vecs :
        \/ DoVector(v)
        \/ DoVectorCopy(v)
        \/ DoVectorMove(v)
        \/ DoDestroy(v)
        \/ \E x \in Vals : DoPushBack(v, x)
        \/ DoPopBack(v)
        \/ DoSwap(v)
        \/ DoCopyAssign(v)
        \/ DoMoveAssign(v)

SpecTwo == InitTwo /\ [][NextTwo]_vars

\* a default-constructed Vector and PushBack alone
InitPush == InitHeap(MaxHeapPush)

NextPush == \E x \in Vals : DoPushBack(1, x)

SpecPush == InitPush /\ [][NextPush]_vars

\* Reserve on the default-constructed Vector, then PushBack alone
InitReserve == InitHeap(MaxHeapReserve)

NextReserve ==
    \/ \E k \in Sizes : DoReserveEmpty(1, k)
    \/ \E x \in Vals : DoPushBack(1, x)

SpecReserve == InitReserve /\ [][NextReserve]_vars

----------------------------------------------------------------------------
(* the claims *)

\* the class invariant of Vector on the object V
Valid(V) ==
    /\ V.size_ >= 0 /\ V.size_ <= Capacity(V)
    /\ Count(V.data_.mem, 0, V.size_) = V.size_
    /\ Count(V.data_.mem, V.size_, Capacity(V) - V.size_) = 0

\* s with x inserted before index i
InsertAt(s, i, x) == SubSeq(s, 1, i) \o <<x>> \o SubSeq(s, i + 1, Len(s))

\* the smallest power of two that is >= n, for n >= 1
RECURSIVE Pow2From(_, _)
Pow2From(p, n) == IF p >= n THEN p ELSE Pow2From(2 * p, n)
Pow2Ceil(n) == Pow2From(1, n)

\* C1: in every state that public operations reach, also after a call that
\* threw and for a moved-from Vector, 0 <= Size() <= Capacity(), the slots
\* [0, Size()) hold constructed elements and the slots [Size(), Capacity())
\* hold none.
C1_Invariant == Running => \A v \in Vecs : Alive(v) => Valid(vec[v])

\* C2: a PushBack that returns leaves Size() one larger, every earlier
\* element unchanged at its index and a pushed value behind them, also
\* when it reallocates.
C2_PushBackKeeps ==
    [][(last'.op = "PushBack" /\ last'.outcome = "ok") =>
         LET B == vec[last'.v]
             A == vec'[last'.v]
         IN  /\ Size(A) = Size(B) + 1
             /\ SubSeq(Elems(A), 1, Size(B)) = Elems(B)
             /\ Elems(A)[Size(A)] \in Vals]_vars

C2_Witness ==
    /\ last.op = "PushBack" /\ last.outcome = "ok" /\ last.at = "realloc"
    /\ Size(vec[last.v]) = 3
    /\ Elems(vec[last.v])[1] # Elems(vec[last.v])[2]

\* C3: when the construction of the new element or the copy construction
\* of an element being relocated throws in PushBack, EmplaceBack, Emplace or
\* Insert, the exception reaches the caller and Size() and the elements are
\* what they were before the call.
C3_StrongGuarantee ==
    [][(/\ last'.op \in {"PushBack", "Insert"}
        /\ last'.outcome # "ok"
        /\ last'.at \in {"new", "temp", "dup", "prefix", "suffix"}) =>
         /\ last'.outcome = "throw"
         /\ Size(vec'[last'.v]) = Size(vec[last'.v])
         /\ Elems(vec'[last'.v]) = Elems(vec[last'.v])]_vars

\* C4: when a constructor or an assignment throws in PushBack, EmplaceBack,
\* Emplace or Insert on a Vector with Size() < Capacity(), the final
\* assignment of the new value included, no constructed element is left
\* outside [0, Size()).
C4_NoStrayObject ==
    [][(/\ last'.op \in {"PushBack", "Insert"}
        /\ last'.outcome = "throw"
        /\ Valid(vec[last'.v])
        /\ Size(vec[last'.v]) < Capacity(vec[last'.v])) =>
         LET A == vec'[last'.v]
         IN  Count(A.data_.mem, Size(A), Capacity(A) - Size(A)) = 0]_vars

\* C5: after N >= 1 PushBack calls on a default-constructed Vector, and
\* nothing else, Capacity() is the smallest power of two >= N: a push at
\* Size() = Capacity() makes the capacity 1 when it was 0 and twice the old
\* one otherwise, a push at Size() < Capacity() leaves it.
C5_Capacity ==
    [][/\ Size(vec'[1]) >= 1 => Capacity(vec'[1]) = Pow2Ceil(Size(vec'[1]))
       /\ last'.outcome = "ok" =>
             Capacity(vec'[1]) =
                IF Size(vec[1]) < Capacity(vec[1]) THEN Capacity(vec[1])
                ELSE IF Capacity(vec[1]) = 0 THEN 1
                ELSE 2 * Capacity(vec[1])]_vars

C5_Witness ==
    /\ last.op = "PushBack" /\ last.outcome = "ok"
    /\ Size(vec[1]) = 5 /\ Capacity(vec[1]) = 8

\* C6: move construction from a source, and move assignment of a source to
\* another Vector, leave the source with Size() = 0 and give the target the
\* size and the elements the source had, in the buffer the source had, with
\* no operation on any element.
C6_MoveTransfers ==
    [][(last'.op \in {"VectorMove", "MoveAssign"} /\ last'.at # "self") =>
         LET v == last'.v
             o == Other(last'.v)
             R == IF last'.op = "VectorMove" THEN VectorMove(vec[o])
                  ELSE MoveAssign(vec[v], vec[o])
         IN  /\ Size(vec'[o]) = 0
             /\ Size(vec'[v]) = Size(vec[o])
             /\ Elems(vec'[v]) = Elems(vec[o])
             /\ vec'[v].data_ = vec[o].data_
             /\ R.ops = 0 /\ R.destroyed = 0]_vars

C6_Witness ==
    /\ last.op = "MoveAssign" /\ last.at # "self"
    /\ Size(vec[last.v]) = 2
    /\ Elems(vec[last.v])[1] # Elems(vec[last.v])[2]
    /\ Size(vec[Other(last.v)]) = 0
    /\ Capacity(vec[Other(last.v)]) > 0

\* C7: after a move construction or a move assignment to another object the
\* source RawMemory is empty, address null and Capacity() 0, so a moved-from
\* Vector has Capacity() = 0.
C7_SourceEmpty ==
    (last.op \in {"VectorMove", "MoveAssign"} /\ last.at # "self") =>
        /\ vec[Other(last.v)].data_.buffer_ = NullAddr
        /\ Capacity(vec[Other(last.v)]) = 0

\* C8: when B = A with B.Capacity() < A.Size() throws while an element of A
\* is copied, B and A are what they were before the assignment and no
\* element constructed for the temporary copy stays alive.
C8_CopyAssignStrong ==
    [][(/\ last'.op = "CopyAssign" /\ last'.outcome = "throw"
        /\ Capacity(vec[last'.v]) < Size(vec[Other(last'.v)])) =>
         LET v == last'.v
             o == Other(last'.v)
         IN  /\ vec'[v] = vec[v]
             /\ vec'[o] = vec[o]
             /\ \A f \in 1..Size(vec[o]) :
                   LET R == CopyAssign(vec[v], vec[o], f, FreshAddr)
                   IN  R.threw /\ R.leaked = 0 /\ R.ops = R.destroyed]_vars

C8_Witness ==
    /\ last.op = "CopyAssign" /\ last.outcome = "throw" /\ last.at = "copy"
    /\ Capacity(vec[last.v]) < Size(vec[Other(last.v)])
    /\ Size(vec[Other(last.v)]) >= 2
    /\ Size(vec[last.v]) >= 1

\* C9: B = A that returns leaves B with the size and the elements of A and
\* leaves A unchanged; with B.Capacity() >= A.Size() before the call B keeps
\* its buffer and capacity, A.Size() elements are assigned or constructed
\* and the excess ones destroyed; with B.Capacity() < A.Size() the capacity
\* of B becomes A.Size().
C9_CopyAssign ==
    [][(/\ last'.op = "CopyAssign" /\ last'.outcome = "ok"
        /\ last'.at # "self") =>
         LET B  == vec[last'.v]
             A  == vec[Other(last'.v)]
             B2 == vec'[last'.v]
             R  == CopyAssign(B, A, 0, FreshAddr)
         IN  /\ Size(B2) = Size(A)
             /\ Elems(B2) = Elems(A)
             /\ vec'[Other(last'.v)] = A
             /\ Capacity(B) >= Size(A) =>
                   /\ B2.data_.buffer_ = B.data_.buffer_
                   /\ Capacity(B2) = Capacity(B)
                   /\ R.ops = Size(A)
                   /\ R.destroyed = IF Size(B) > Size(A)
                                    THEN Size(B) - Size(A) ELSE 0
             /\ Capacity(B) < Size(A) => Capacity(B2) = Size(A)]_vars

C9_Witness ==
    /\ last.op = "CopyAssign" /\ last.outcome = "ok" /\ last.at = "inplace"
    /\ Size(vec[last.v]) = 2
    /\ Elems(vec[last.v])[1] # Elems(vec[last.v])[2]

\* C10: Insert / Emplace of x at index i of a Vector holding s gives
\* s[0..i) ++ [x] ++ s[i..) and Size() one larger, and returns begin() + i
\* of the resulting Vector, with and without reallocation; at end() the
\* result is the one of PushBack(x).
C10_Insert ==
    Running =>
      \A v \in Vecs : Alive(v) =>
        \A shift \in 0..Size(vec[v]), x \in Vals :
          LET R == Emplace(vec[v], shift, x, 0, FreshAddr)
              P == EmplaceBack(vec[v], x, 0, FreshAddr)
          IN  /\ ~R.threw
              /\ R.size_ = Size(vec[v]) + 1
              /\ Elems(R) = InsertAt(Elems(vec[v]), shift, x)
              /\ R.ret = IterAt(R, shift)
              /\ shift = Size(vec[v]) =>
                    /\ Elems(R) = Elems(P)
                    /\ R.size_ = P.size_
                    /\ Capacity(R) = Capacity(P)

C10_Witness ==
    /\ last.op = "Insert" /\ last.outcome = "ok" /\ last.at = "realloc"
    /\ Elems(vec[last.v]) = <<0, 1, 0>>

\* s without its element at index i
RemoveAt(s, i) == SubSeq(s, 1, i) \o SubSeq(s, i + 2, Len(s))

\* C11: Erase at any index i in [0, Size()) of a Vector holding s gives s
\* without element i, the others in their order, Size() one smaller,
\* Capacity() and the buffer unchanged, one element destroyed, and returns
\* begin() + i.
C11_Erase ==
    Running =>
      \A v \in Vecs : Alive(v) =>
        \A shift \in 0..(Size(vec[v]) - 1) :
          LET R == Erase(vec[v], shift, 0)
          IN  /\ ~R.threw
              /\ Elems(R) = RemoveAt(Elems(vec[v]), shift)
              /\ R.size_ = Size(vec[v]) - 1
              /\ Capacity(R) = Capacity(vec[v])
              /\ R.data_.buffer_ = vec[v].data_.buffer_
              /\ R.destroyed = 1 /\ R.ub = 0
              /\ R.ret = IterAt(vec[v], shift)

C11_Witness ==
    /\ last.op = "Erase" /\ last.outcome = "ok"
    /\ Elems(vec[last.v]) = <<1, 0, 1>>

\* constructed objects of V outside [0, Size())
Stray(V) == Count(V.data_.mem, V.size_, Capacity(V) - V.size_)

\* C12: Reserve(n) with n <= Capacity() changes nothing.  Reserve(n) with
\* n > Capacity() that returns makes Capacity() n, keeps Size() and the
\* elements at their indices, and destroys every element in the old buffer:
\* the buffer released holds no constructed object of a Vector that had none
\* outside [0, Size()).  When the copy of an element into the new buffer
\* throws, the buffer, capacity, size and elements are the old ones.
C12_Reserve ==
    Running =>
      \A v \in Vecs : Alive(v) =>
        \A new_capacity \in Sizes :
          LET V  == vec[v]
              R0 == Reserve(V, new_capacity, 0, FreshAddr)
          IN  /\ ~R0.threw
              /\ new_capacity <= Capacity(V) =>
                    /\ R0.data_ = V.data_ /\ R0.size_ = V.size_
                    /\ R0.ops = 0 /\ R0.destroyed = 0
              /\ new_capacity > Capacity(V) =>
                    /\ Capacity(R0) = new_capacity
                    /\ R0.size_ = V.size_
                    /\ Elems(R0) = Elems(V)
                    /\ R0.destroyed = V.size_
                    /\ R0.leaked = Stray(V)
                    /\ \A f \in 1..R0.t :
                          LET R == Reserve(V, new_capacity, f, FreshAddr)
                          IN  /\ R.threw
                              /\ R.data_ = V.data_ /\ R.size_ = V.size_
                              /\ Elems(R) = Elems(V)

C12_Witness ==
    /\ last.op = "Reserve" /\ last.outcome = "ok" /\ last.at = "realloc"
    /\ kind = "CopyOnly"
    /\ Capacity(vec[last.v]) = 3
    /\ Elems(vec[last.v]) = <<1, 0>>

\* C13: after Reserve(k) on an empty Vector, every one of the first N <= k
\* PushBack calls leaves Capacity() k and the buffer the one Reserve left,
\* does not reallocate and leaves every earlier element in its slot.
C13_ReserveThenPush ==
    [][(/\ last'.op = "PushBack"
        /\ reserved.k >= 0
        /\ Size(vec'[1]) <= reserved.k) =>
         /\ last'.at # "realloc"
         /\ Capacity(vec'[1]) = reserved.k
         /\ vec'[1].data_.buffer_ = reserved.buffer_
         /\ \A j \in 1..Size(vec[1]) :
               vec'[1].data_.mem[j] = vec[1].data_.mem[j]]_vars

C13_Witness ==
    /\ last.op = "PushBack" /\ last.outcome = "ok"
    /\ reserved.k = 3
    /\ Size(vec[1]) = 3
    /\ Elems(vec[1]) = <<1, 0, 1>>

\* C14: Resize(n) that returns leaves Size() = n.  For n > Size() the
\* elements [0, old size) keep their values, the slots [old size, n) hold
\* value-initialized elements and the capacity becomes n only when it was
\* smaller.  For n <= Size() the elements [n, old size), and no others, are
\* destroyed and buffer and capacity stay; Resize(0) destroys every element.
C14_Resize ==
    Running =>
      \A v \in Vecs : Alive(v) =>
        \A new_size \in Sizes :
          LET V == vec[v]
              R == Resize(V, new_size, 0, FreshAddr)
          IN  /\ ~R.threw
              /\ R.size_ = new_size
              /\ new_size > Size(V) =>
                    /\ SubSeq(Elems(R), 1, Size(V)) = Elems(V)
                    /\ \A j \in (Size(V) + 1)..new_size :
                          R.data_.mem[j] = DefaultVal
                    /\ Capacity(R) = IF Capacity(V) < new_size THEN new_size
                                     ELSE Capacity(V)
              /\ new_size <= Size(V) =>
                    /\ R.destroyed = Size(V) - new_size
                    /\ \A j \in (new_size + 1)..Size(V) : R.data_.mem[j] = Raw
                    /\ Elems(R) = SubSeq(Elems(V), 1, new_size)
                    /\ R.data_.buffer_ = V.data_.buffer_
                    /\ Capacity(R) = Capacity(V)
                    /\ R.ub = 0

C14_Witness ==
    /\ last.op = "Resize" /\ last.outcome = "ok" /\ last.at = "realloc"
    /\ Elems(vec[last.v]) = <<1, 1, 0>>

\* C15: when an element construction throws during a growing Resize(n), in
\* the relocation by copy of Reserve or in the value construction of a new
\* slot, Size() and the elements [0, Size()) are what they were, every
\* object the call constructed beyond them is destroyed (as many destructor
\* calls as constructions, no object in a slot at or after Size() that was
\* not there before), and the capacity is the old one or n.
C15_ResizeThrow ==
    Running =>
      \A v \in Vecs : Alive(v) =>
        \A new_size \in Sizes : new_size > Size(vec[v]) =>
          LET V  == vec[v]
              R0 == Resize(V, new_size, 0, FreshAddr)
          IN  \A f \in 1..R0.t :
                LET R == Resize(V, new_size, f, FreshAddr)
                IN  /\ R.threw
                    /\ R.size_ = Size(V)
                    /\ Elems(R) = Elems(V)
                    /\ R.ops = R.destroyed
                    /\ \A j \in (Size(V) + 1)..Capacity(R) :
                          R.data_.mem[j] # Raw =>
                            /\ R.data_.buffer_ = V.data_.buffer_
                            /\ V.data_.mem[j] # Raw
                    /\ Capacity(R) \in {Capacity(V), new_size}
                    /\ Capacity(R) >= Capacity(V)
                    /\ R.at = "relocate" => R.data_ = V.data_

C15_Witness ==
    /\ last.op = "Resize" /\ last.outcome = "throw" /\ last.at = "value"
    /\ kind = "CopyOnly"
    /\ Capacity(vec[last.v]) = 4
    /\ Elems(vec[last.v]) = <<1, 0>>

\* C16: when a move assignment throws while Erase shifts the tail down, the
\* Vector stays valid and correctly sized: Size() is the one before the
\* call, every slot in [0, Size()) holds a constructed element, the slots
\* outside are untouched (none constructed, for a Vector that was valid) and
\* no element has been destroyed.
C16_EraseThrow ==
    Running =>
      \A v \in Vecs : Alive(v) =>
        \A shift \in 0..(Size(vec[v]) - 1) :
          LET V  == vec[v]
              R0 == Erase(V, shift, 0)
          IN  \A f \in 1..R0.t :
                LET R == Erase(V, shift, f)
                IN  /\ R.threw
                    /\ R.size_ = Size(V)
                    /\ R.data_.buffer_ = V.data_.buffer_
                    /\ Capacity(R) = Capacity(V)
                    /\ Count(R.data_.mem, 0, R.size_) = R.size_
                    /\ \A j \in (Size(V) + 1)..Capacity(V) :
                          R.data_.mem[j] = V.data_.mem[j]
                    /\ Valid(V) => Valid(R)
                    /\ R.destroyed = 0 /\ R.ub = 0 /\ R.leaked = 0

C16_Witness ==
    /\ last.op = "Erase" /\ last.outcome = "throw" /\ last.at = "shift"
    /\ Size(vec[last.v]) = 3
    /\ Valid(vec[last.v])

\* C17: in Emplace / Insert / PushBack at Size() = Capacity(), when the
\* relocation of the prefix or of the suffix into the new buffer throws,
\* every object constructed in the new buffer is destroyed before the
\* buffer is released (none is lost without a destructor call) and the
\* original buffer and its elements are unchanged.
C17_ReallocCleanup ==
    Running =>
      \A v \in Vecs : (Alive(v) /\ Size(vec[v]) = Capacity(vec[v])) =>
        \A shift \in 0..Size(vec[v]), x \in Vals :
          LET V  == vec[v]
              R0 == Emplace(V, shift, x, 0, FreshAddr)
          IN  \A f \in 2..R0.t :
                LET R == Emplace(V, shift, x, f, FreshAddr)
                IN  /\ R.threw /\ R.at \in {"prefix", "suffix"}
                    /\ R.leaked = 0
                    /\ R.destroyed = R.ops
                    /\ R.data_ = V.data_ /\ R.size_ = Size(V)

\* C18: in Emplace / Insert before end() at Size() < Capacity(), when an
\* assignment throws while [pos, end - 1) is shifted up, the element that
\* was move-constructed into slot Size() is destroyed and the Vector is in
\* its state before the call: Size() unchanged and every element of
\* [0, Size()), the last one included, with the value it had.
C18_ShiftRestores ==
    Running =>
      \A v \in Vecs : (Alive(v) /\ Size(vec[v]) < Capacity(vec[v])) =>
        \A shift \in 0..(Size(vec[v]) - 1), x \in Vals :
          LET V  == vec[v]
              R0 == Emplace(V, shift, x, 0, FreshAddr)
          IN  \A f \in 1..R0.t :
                LET R == Emplace(V, shift, x, f, FreshAddr)
                IN  R.at = "shift" =>
                      /\ R.threw
                      /\ R.size_ = Size(V)
                      /\ R.data_.mem[Size(V) + 1] = Raw
                      /\ Elems(R) = Elems(V)

\* C19: move assignment of a source to a different target that holds live
\* elements does not leak them: after the assignment no buffer of either
\* Vector holds a constructed element outside that Vector's [0, Size()),
\* and the destructor of a Vector releases no buffer that still holds a
\* constructed element.
C19_MoveAssignNoLeak ==
    [][/\ (/\ last'.op = "MoveAssign" /\ last'.at # "self"
           /\ Valid(vec[last'.v]) /\ Valid(vec[Other(last'.v)])) =>
             /\ Valid(vec'[last'.v])
             /\ Valid(vec'[Other(last'.v)])
       /\ last'.op = "Destroy" => Destroy(vec[last'.v]).leaked = 0]_vars

\* C20: no operation of a Vector, when it returns or when it throws,
\* destroys a slot that holds no constructed element or destroys an element
\* twice; the handler of a throw in the suffix relocation of the
\* reallocating Emplace destroys only slots of the new buffer that hold an
\* object at that moment.
C20_DestroysOnlyObjects ==
    Running =>
      \A v \in Vecs : Alive(v) =>
        LET V == vec[v]
        IN  /\ \A shift \in 0..Size(V), x \in Vals :
                  \A f \in 0..Emplace(V, shift, x, 0, FreshAddr).t :
                     Emplace(V, shift, x, f, FreshAddr).ub = 0
            /\ \A n \in Sizes :
                  /\ \A f \in 0..Reserve(V, n, 0, FreshAddr).t :
                        Reserve(V, n, f, FreshAddr).ub = 0
                  /\ \A f \in 0..Resize(V, n, 0, FreshAddr).t :
                        Resize(V, n, f, FreshAddr).ub = 0
            /\ \A shift \in 0..(Size(V) - 1) :
                  \A f \in 0..Erase(V, shift, 0).t : Erase(V, shift, f).ub = 0
            /\ Size(V) # 0 => PopBack(V).ub = 0
            /\ Clear(V).ub = 0
            /\ Destroy(V).ub = 0

====
